---------------------------- MODULE Spec2Model ----------------------------
(***************************************************************************)
(* A model of the idealista web scraper's extraction-and-normalization     *)
(* pipeline: the parquet store of src/data/io.py and the NormalizarDataFrame*)
(* class of src/data/normalizator.py.                                      *)
(*                                                                         *)
(* Text is modelled as a sequence of symbols.  A symbol is a chunk of      *)
(* characters that the patterns of the program never split ("con", " ",    *)
(* "ascensor", one digit, ...); joining, lowercasing, substring search and *)
(* the regular expressions are computed on those sequences.                *)
(***************************************************************************)
EXTENDS Integers, Sequences, FiniteSets, TLC

VARIABLES
    files,      \* the disk: the rows of the file at each path that exists
    dirs,       \* the directories that exist
    calls,      \* the save calls completed so far, in call order
    procs,      \* the two concurrent save calls and their local variables
    overlapped, \* whether the two concurrent calls ran at the same time
    call,       \* a call of an extractor or of normalizar_precios
    dataframe,  \* self.dataframe of a NormalizarDataFrame (the caller's batch)
    normalized  \* what each normalize_dataframe call so far saw and returned

vars == <<files, dirs, calls, procs, overlapped, call, dataframe, normalized>>

-----------------------------------------------------------------------------
(* Bounds *)

MaxCalls == 3
MaxBatchLen == 1

-----------------------------------------------------------------------------
(* Sequences of symbols *)

MatchesAt(s, pat, i) ==
    /\ i >= 1
    /\ i + Len(pat) - 1 <= Len(s)
    /\ \A k \in 1..Len(pat) : s[i + k - 1] = pat[k]

\* Python's `pat in s`, and re.search of a pattern without metacharacters.
Contains(s, pat) == \E i \in 1..(Len(s) + 1) : MatchesAt(s, pat, i)

Last(s) == s[Len(s)]

\* The function f itself, computed once at every argument.
Value(f) == f @@ <<>>

SeqsUpTo(S, lo, hi) == UNION {[1..n -> S] : n \in lo..hi}

-----------------------------------------------------------------------------
(* The store: save_df_to_parquet *)

PARQUET == <<".parquet">>

DestPaths == {<<"out">>}

\* Names a caller passes.
Names == {<<"data">>, <<"data">> \o PARQUET, <<"other">> \o PARQUET}

Rows == {"a", "b"}

\* Batches a caller saves: each listing once.
Batches ==
    {b \in SeqsUpTo(Rows, 1, MaxBatchLen) :
        \A i, j \in 1..Len(b) : b[i] = b[j] => i = j}

\* Rows a file already holds before the first call.
Stored == <<"s">>

\* os.path.join(dest_path, name), for a relative name
PathJoin(dest_path, name) == dest_path \o <<"/">> \o name

NeverAppendExtension(name) == name

\* lines 31-32: the extension is appended unless ".parquet" occurs in the name
WithExtension(name) ==
    IF ~Contains(name, PARQUET) THEN name \o PARQUET ELSE name

FilePath(dest_path, name) == PathJoin(dest_path, WithExtension(name))

\* os.path.exists(file_path)
Exists(fs, path) == path \in DOMAIN fs

\* DataFrame.to_parquet(file_path): the file is created or replaced
ToParquet(fs, path, df) ==
    [p \in DOMAIN fs \cup {path} |-> IF p = path THEN df ELSE fs[p]]

ConcatNewOnly(existing_df, dataframe_to_save) == dataframe_to_save

\* pd.concat([existing_df, dataframe_to_save]): rows of both, in that order
Concat(existing_df, dataframe_to_save) == existing_df \o dataframe_to_save

WrittenFlipped(fs, path, df, replace) ==
    IF Exists(fs, path)
    THEN IF ~replace THEN Concat(fs[path], df) ELSE df
    ELSE df

\* lines 38-53: the rows the call writes to file_path
Written(fs, path, df, replace) ==
    IF Exists(fs, path)
    THEN IF replace THEN Concat(fs[path], df) ELSE df
    ELSE df

\* The whole call, by a single caller.
SaveDfToParquet(dataframe_to_save, dest_path, name, replace) ==
    LET file_path == FilePath(dest_path, name) IN
    /\ files' = ToParquet(files, file_path,
                          Written(files, file_path, dataframe_to_save, replace))
    /\ dirs' = IF Exists(files, file_path) THEN dirs ELSE dirs \cup {dest_path}
    /\ calls' = Append(calls, [dest_path |-> dest_path, name |-> name,
                               batch |-> dataframe_to_save, replace |-> replace,
                               found |-> Exists(files, file_path)])

Save ==
    /\ Len(calls) < MaxCalls
    /\ \E df \in Batches, d \in DestPaths, n \in Names, r \in BOOLEAN :
           SaveDfToParquet(df, d, n, r)
    /\ UNCHANGED <<procs, overlapped, call, dataframe, normalized>>

-----------------------------------------------------------------------------
(* Two save calls at the same time, statement by statement *)

Procs == {1, 2}

\* The batch each concurrent call saves.
BatchOf(p) == IF p = 1 THEN <<"a">> ELSE <<"b">>

ConcNames == {<<"data">>, <<"data">> \o PARQUET}

ConcDest == <<"out">>

ConcPath == PathJoin(ConcDest, <<"data">> \o PARQUET)

IdleProc ==
    [pc |-> "idle", df |-> <<>>, name |-> <<>>, replace |-> FALSE,
     found |-> FALSE, existing_df |-> <<>>, exc |-> ""]

IdleProcs == [p \in Procs |-> IdleProc]

Running(p) == procs[p].pc \notin {"idle", "done", "raised"}

\* The call is made: its arguments are bound (lines 6-8).
Begin(p) ==
    /\ procs[p].pc = "idle"
    /\ \E n \in ConcNames, r \in BOOLEAN :
           procs' = [procs EXCEPT ![p] = [IdleProc EXCEPT !.pc = "exists",
                                             !.df = BatchOf(p), !.name = n,
                                             !.replace = r]]
    /\ overlapped' = (overlapped \/ \E q \in Procs \ {p} : Running(q))
    /\ UNCHANGED <<files, dirs, calls, call, dataframe, normalized>>

\* lines 31-39: the path is computed and tested
CheckExists(p) ==
    /\ procs[p].pc = "exists"
    /\ LET file_path == FilePath(ConcDest, procs[p].name)
           found == Exists(files, file_path)
       IN procs' = [procs EXCEPT ![p].found = found,
                                 ![p].pc = IF found
                                           THEN IF procs[p].replace
                                                THEN "read" ELSE "overwrite"
                                           ELSE "create"]
    /\ UNCHANGED <<files, dirs, calls, overlapped, call, dataframe, normalized>>

\* line 43
ReadParquet(p) ==
    /\ procs[p].pc = "read"
    /\ procs' = [procs EXCEPT
                    ![p].existing_df = files[FilePath(ConcDest, procs[p].name)],
                    ![p].pc = "write"]
    /\ UNCHANGED <<files, dirs, calls, overlapped, call, dataframe, normalized>>

\* lines 44-45
WriteUpdated(p) ==
    /\ procs[p].pc = "write"
    /\ files' = ToParquet(files, FilePath(ConcDest, procs[p].name),
                          Concat(procs[p].existing_df, procs[p].df))
    /\ procs' = [procs EXCEPT ![p].pc = "done"]
    /\ UNCHANGED <<dirs, calls, overlapped, call, dataframe, normalized>>

\* line 48
Overwrite(p) ==
    /\ procs[p].pc = "overwrite"
    /\ files' = ToParquet(files, FilePath(ConcDest, procs[p].name), procs[p].df)
    /\ procs' = [procs EXCEPT ![p].pc = "done"]
    /\ UNCHANGED <<dirs, calls, overlapped, call, dataframe, normalized>>

\* lines 52-53
Create(p) ==
    /\ procs[p].pc = "create"
    /\ dirs' = dirs \cup {ConcDest}
    /\ files' = ToParquet(files, FilePath(ConcDest, procs[p].name), procs[p].df)
    /\ procs' = [procs EXCEPT ![p].pc = "done"]
    /\ UNCHANGED <<calls, overlapped, call, dataframe, normalized>>

-----------------------------------------------------------------------------
(* A save call whose to_parquet fails *)

\* What a file holds when the write to it stopped part-way: no rows.
Truncated == <<>>

\* The statements of lines 45, 48 and 53.
WritePcs == {"write", "overwrite", "create"}

\* DataFrame.to_parquet(file_path) raising OSError: either before the file
\* is opened, which leaves the disk as it was, or after, which leaves a
\* truncated file.
FailedToParquet(fs, path) == {fs, ToParquet(fs, path, Truncated)}

FailedSwallowed(proc) == [proc EXCEPT !.pc = "done"]

\* lines 38-53 hold no try: the exception ends the call and goes to the
\* caller as it is
Failed(proc) == [proc EXCEPT !.pc = "raised", !.exc = "OSError"]

\* lines 45, 48, 53: to_parquet raises
ToParquetFails(p) ==
    /\ procs[p].pc \in WritePcs
    /\ files' \in FailedToParquet(files, FilePath(ConcDest, procs[p].name))
    /\ dirs' = IF procs[p].pc = "create" THEN dirs \cup {ConcDest} ELSE dirs
    /\ procs' = [procs EXCEPT ![p] = Failed(procs[p])]
    /\ UNCHANGED <<calls, overlapped, call, dataframe, normalized>>

-----------------------------------------------------------------------------
(* Text: str.join, str.lower and the regular expressions of the extractors *)

Digits == {"0", "1", "2", "3", "4", "5", "6", "7", "8", "9"}

\* \d
IsDigit(c) == c \in Digits

\* \s
IsSpace(c) == c = " "

Punctuation == {".", ",", ":", "/", "€", "-"}

\* \w: letters, digits and the other alphanumeric characters ("²", "ª")
IsWord(c) == ~IsSpace(c) /\ c \notin Punctuation

\* The symbols with upper-case letters, each with its lower-case form.
UpperLower ==
    {<<"Con", "con">>, <<"Sin", "sin">>, <<"Planta", "planta">>,
     <<"Garaje", "garaje">>, <<"Bajo", "bajo">>, <<"Terraza", "terraza">>,
     <<"Balcón", "balcón">>, <<"Plaza", "plaza">>, <<"Segunda", "segunda">>,
     <<"Armarios", "armarios">>, <<"Orientación", "orientación">>,
     <<"Cocina", "cocina">>, <<"Amuebl", "amuebl">>, <<"Casa", "casa">>,
     <<"Calefacción", "calefacción">>, <<"Trastero", "trastero">>,
     <<"Construido", "construido">>, <<"Parcela", "parcela">>,
     <<"Gas", "gas">>}

LowerSymbol(c) ==
    IF \E pr \in UpperLower : pr[1] = c
    THEN (CHOOSE pr \in UpperLower : pr[1] = c)[2]
    ELSE c

\* str.lower()
Lower(s) == Value([i \in 1..Len(s) |-> LowerSymbol(s[i])])

RECURSIVE JoinFrom(_, _)
JoinFrom(list, i) ==
    IF i > Len(list) THEN <<>>
    ELSE IF i = Len(list) THEN list[i]
    ELSE list[i] \o <<" ">> \o JoinFrom(list, i + 1)

\* " ".join(list)
Join(list) == JoinFrom(list, 1)

\* The character classes of the patterns: \d, \s, \w and [\w\s:]
InClass(c, class) ==
    CASE class = "d" -> IsDigit(c)
      [] class = "s" -> IsSpace(c)
      [] class = "w" -> IsWord(c)
      [] class = "ws:" -> IsWord(c) \/ IsSpace(c) \/ c = ":"

\* The end of the longest run of symbols of a class that starts at i (i - 1
\* when s[i] is not of the class): a greedy \d+, \s*, \w+, [\w\s:]+.
RunEnd(s, i, class) ==
    LET stops == {k \in i..Len(s) : ~InClass(s[k], class)}
    IN  IF stops = {} THEN Len(s)
        ELSE (CHOOSE k \in stops : \A j \in stops : k <= j) - 1

\* The leftmost element of a set of positions, 0 when there is none.
Leftmost(P) == IF P = {} THEN 0 ELSE CHOOSE i \in P : \A j \in P : i <= j

\* re.search of a literal pattern: the match, as a truth value.
Search(pat, s) == Contains(s, pat)

None == [t |-> "None"]
IntVal(n) == [t |-> "int", v |-> n]
BoolVal(b) == [t |-> "bool", v |-> b]
StrVal(s) == [t |-> "str", v |-> s]

DigitValue(c) == CHOOSE n \in 0..9 : ToString(n) = c

RECURSIVE IntOf(_)
\* int(text) of a run of digits
IntOf(ds) ==
    IF ds = <<>> THEN 0
    ELSE 10 * IntOf(SubSeq(ds, 1, Len(ds) - 1)) + DigitValue(ds[Len(ds)])

\* Whether  pre (\d+) \s* suf  matches with pre starting at i; `exactly` > 0
\* stands for (\d{exactly}) in place of (\d+).
NumberAt(s, pre, suf, exactly, i) ==
    LET d == i + Len(pre)
        e == IF exactly > 0 THEN d + exactly - 1 ELSE RunEnd(s, d, "d")
    IN  /\ MatchesAt(s, pre, i)
        /\ d <= Len(s) /\ IsDigit(s[d])
        /\ e <= RunEnd(s, d, "d")
        /\ IF suf = <<>> THEN TRUE
           ELSE MatchesAt(s, suf, RunEnd(s, e + 1, "s") + 1)

\* re.search(pre (\d+)\s*suf, s): int(group(1)) of the leftmost match, or None.
SearchNumber(s, pre, suf, exactly) ==
    LET i == Leftmost({k \in 1..Len(s) : NumberAt(s, pre, suf, exactly, k)})
        d == i + Len(pre)
        e == IF exactly > 0 THEN d + exactly - 1 ELSE RunEnd(s, d, "d")
    IN  IF i = 0 THEN None ELSE IntVal(IntOf(SubSeq(s, d, e)))

-----------------------------------------------------------------------------
(* NormalizarDataFrame.extract_info_features *)

AscensorSinFirst(info) ==
    IF Search(<<"sin", " ", "ascensor">>, info) THEN BoolVal(FALSE)
    ELSE IF Search(<<"con", " ", "ascensor">>, info) THEN BoolVal(TRUE)
    ELSE None

\* lines 80-85
Ascensor(info) ==
    IF Search(<<"con", " ", "ascensor">>, info) THEN BoolVal(TRUE)
    ELSE IF Search(<<"sin", " ", "ascensor">>, info) THEN BoolVal(FALSE)
    ELSE None

GarajeOrNone(info) ==
    IF Search(<<"garaje", " ", "incluido">>, info) THEN BoolVal(TRUE)
    ELSE IF Search(<<"con", " ", "garaje">>, info) THEN BoolVal(TRUE)
    ELSE None

\* lines 73-77
Garaje(info) ==
    BoolVal(Search(<<"garaje", " ", "incluido">>, info)
              \/ Search(<<"con", " ", "garaje">>, info))

\* lines 56-93
ExtractInfoFeatures(list) ==
    LET info == Lower(Join(list)) IN
    [superficie_m2 |-> SearchNumber(info, <<>>, <<"m²">>, 0),
     habitaciones  |-> SearchNumber(info, <<>>, <<"hab">>, 0),
     garaje        |-> Garaje(info),
     planta        |-> SearchNumber(info, <<"planta", " ">>, <<>>, 0),
     ascensor      |-> Ascensor(info)]

\* Fragments of the info-features block of a listing.
InfoFragments ==
    {<<"9", "0", " ", "m²">>,
     <<"3", " ", "hab", ".">>,
     <<"Planta", " ", "2", "ª", " ", "exterior", " ", "con", " ", "ascensor">>,
     <<"Bajo", " ", "exterior", " ", "sin", " ", "ascensor">>,
     <<"Garaje", " ", "incluido">>,
     <<"Con", " ", "garaje">>,
     <<"con">>,
     <<"ascensor">>}

MaxInfo == 2

InfoLists == SeqsUpTo(InfoFragments, 0, MaxInfo)

ExtractInfoFeaturesCall ==
    /\ call.fn = "extract_info_features" /\ ~call.done
    /\ call' = [call EXCEPT !.ret = ExtractInfoFeatures(call.arg), !.done = TRUE]
    /\ UNCHANGED <<files, dirs, calls, procs, overlapped, dataframe, normalized>>

-----------------------------------------------------------------------------
(* NormalizarDataFrame.filter_energy_data, extract_certificado_energetico *)

\* A value of an entry: None, or a pair (value, icon) held in a numpy array
\* (what a stored batch holds when it is read back) or in a Python list (what
\* the scraper builds, scrapper.py line 158).
Pair(kind, value, icon) == [t |-> kind, v |-> <<value, icon>>]

\* isinstance(x, np.ndarray)
IsNdarray(x) == x.t = "ndarray"

\* Python truthiness of a text: it is not empty
Truthy(text) == text # <<>>

RelevantLabels == {"Consumo:", "Emisiones:"}

\* lines 111-115: the keys of one entry that are kept
FilterItem(item) ==
    LET keep == {key \in DOMAIN item :
                    key \in RelevantLabels /\ item[key] # None}
    IN  [key \in keep |-> item[key]]

\* lines 109-117
FilterEnergyData(data) == Value([i \in 1..Len(data) |-> FilterItem(data[i])])

TakeAlways(old, element) == StrVal(element)

\* lines 149-152: an element replaces the value found so far when it is truthy
Take(old, element) == IF Truthy(element) THEN StrVal(element) ELSE old

FoldItemIconFromValue(acc, item) ==
    LET c == IF "Consumo:" \in DOMAIN item /\ item["Consumo:"] # None
                  /\ IsNdarray(item["Consumo:"])
             THEN [acc EXCEPT
                     !.consumo_energetico_valor = Take(@, item["Consumo:"].v[1]),
                     !.consumo_energetico_icono = Take(@, item["Consumo:"].v[1])]
             ELSE acc
    IN  IF "Emisiones:" \in DOMAIN item /\ item["Emisiones:"] # None
             /\ IsNdarray(item["Emisiones:"])
        THEN [c EXCEPT
                !.emisiones_valor = Take(@, item["Emisiones:"].v[1]),
                !.emisiones_icono = Take(@, item["Emisiones:"].v[2])]
        ELSE c

\* lines 146-160: one entry of the loop; acc is the four values found so far
FoldItem(acc, item) ==
    LET c == IF "Consumo:" \in DOMAIN item /\ item["Consumo:"] # None
                  /\ IsNdarray(item["Consumo:"])
             THEN [acc EXCEPT
                     !.consumo_energetico_valor = Take(@, item["Consumo:"].v[1]),
                     !.consumo_energetico_icono = Take(@, item["Consumo:"].v[2])]
             ELSE acc
    IN  IF "Emisiones:" \in DOMAIN item /\ item["Emisiones:"] # None
             /\ IsNdarray(item["Emisiones:"])
        THEN [c EXCEPT
                !.emisiones_valor = Take(@, item["Emisiones:"].v[1]),
                !.emisiones_icono = Take(@, item["Emisiones:"].v[2])]
        ELSE c

RECURSIVE FoldCertificado(_, _, _)
\* lines 145-160: the loop from entry i on
FoldCertificado(acc, certificado, i) ==
    IF i > Len(certificado) THEN acc
    ELSE FoldCertificado(FoldItem(acc, certificado[i]), certificado, i + 1)

\* lines 134-167
ExtractCertificadoEnergetico(data) ==
    FoldCertificado(
        [consumo_energetico_valor |-> None, consumo_energetico_icono |-> None,
         emisiones_valor |-> None, emisiones_icono |-> None],
        FilterEnergyData(data), 1)

\* Entries of the energy certificate of a listing.
EnergyEntries ==
    {("Consumo:" :> Pair("ndarray", <<"A">>, <<"icon-a">>)),
     ("Consumo:" :> Pair("ndarray", <<"B">>, <<>>)),
     ("Consumo:" :> Pair("list", <<"A">>, <<"icon-a">>)),
     ("Consumo:" :> None),
     ("Emisiones:" :> Pair("ndarray", <<"B">>, <<"icon-b">>)),
     ("Emisiones:" :> Pair("ndarray", <<>>, <<"icon-c">>)),
     ("Otro:" :> Pair("ndarray", <<"X">>, <<"Y">>)),
     ("Consumo:" :> None) @@ ("Emisiones:" :> Pair("ndarray", <<"C">>, <<"icon-c">>))
                          @@ ("Otro:" :> None)}

MaxEntries == 2

EnergyLists == SeqsUpTo(EnergyEntries, 0, MaxEntries)

ExtractCertificadoEnergeticoCall ==
    /\ call.fn = "extract_certificado_energetico" /\ ~call.done
    /\ call' = [call EXCEPT !.ret = ExtractCertificadoEnergetico(call.arg),
                            !.done = TRUE]
    /\ UNCHANGED <<files, dirs, calls, procs, overlapped, dataframe, normalized>>

-----------------------------------------------------------------------------
(* NormalizarDataFrame.extract_caracteristicas_basicas *)

\* str.strip()
Strip(s) ==
    LET ns == {k \in 1..Len(s) : ~IsSpace(s[k])}
    IN  IF ns = {} THEN <<>>
        ELSE SubSeq(s, CHOOSE k \in ns : \A j \in ns : k <= j,
                       CHOOSE k \in ns : \A j \in ns : j <= k)

RECURSIVE ListEnd(_, _)
\* (?:, \w+)* after a word that ends at e: the end of the last word taken
ListEnd(s, e) ==
    IF MatchesAt(s, <<",", " ">>, e + 1) /\ e + 3 <= Len(s) /\ IsWord(s[e + 3])
    THEN ListEnd(s, RunEnd(s, e + 3, "w"))
    ELSE e

\* line 197, 217, 244: orientación (\w+(?:, \w+)*)
SearchOrientacion(s) ==
    LET pre == <<"orientación", " ">>
        i == Leftmost({k \in 1..Len(s) :
                          /\ MatchesAt(s, pre, k)
                          /\ k + 2 <= Len(s) /\ IsWord(s[k + 2])})
    IN  IF i = 0 THEN None
        ELSE StrVal(SubSeq(s, i + 2, ListEnd(s, RunEnd(s, i + 2, "w"))))

\* calefacción\s*([\w\s:]+) with "calefacción" at i: the group, or <<>> when
\* there is no match at i.  When the spaces are followed by no character of
\* the class, the last space is given back to the group.
CalefaccionAt(s, i) ==
    LET j == RunEnd(s, i + 1, "s") + 1
    IN  IF ~MatchesAt(s, <<"calefacción">>, i) THEN <<>>
        ELSE IF j <= Len(s) /\ InClass(s[j], "ws:")
             THEN SubSeq(s, j, RunEnd(s, j, "ws:"))
        ELSE IF j > i + 1 THEN <<" ">>
        ELSE <<>>

\* line 201, 222, 247
SearchCalefaccion(s) ==
    LET i == Leftmost({k \in 1..Len(s) : CalefaccionAt(s, k) # <<>>})
    IN  IF i = 0 THEN None ELSE StrVal(Strip(CalefaccionAt(s, i)))

\* bool(pattern.search(text))
Flag(pat, s) == BoolVal(Search(pat, s))

AmuebladaFurnishedOnly(t) == BoolVal(Search(<<"amuebl", "ado">>, t))

\* lines 199-200, 219-221: casas_amueblada_pattern or amueblado_pattern
Amueblada(t) ==
    BoolVal(Search(<<"casa", " ", "sin", " ", "amuebl", "ar">>, t)
              \/ Search(<<"amuebl", "ado">>, t))

\* lines 184-251
ExtractCaracteristicasBasicas(list) ==
    LET t == Lower(Join(list)) IN
    [caracteristicas_basicas_superficie_m2 |->
         SearchNumber(t, <<>>, <<"m²", " ", "construidos">>, 0),
     superficie_util_m2 |-> SearchNumber(t, <<>>, <<"m²", " ", "útiles">>, 0),
     caracteristicas_basicas_habitaciones |->
         SearchNumber(t, <<>>, <<"hab", "itac">>, 0),
     caracteristicas_basicas_banos |-> SearchNumber(t, <<>>, <<"baño">>, 0),
     parcela_m2 |-> SearchNumber(t, <<"parcela", " ", "de", " ">>, <<"m²">>, 0),
     terraza |-> Flag(<<"terraza">>, t),
     balcon |-> Flag(<<"balcón">>, t),
     garaje_incluido |->
         Flag(<<"plaza", " ", "de", " ", "garaje", " ", "incluida", " ", "en",
                " ", "el", " ", "precio">>, t),
     segunda_mano_buen_estado |->
         Flag(<<"segunda", " ", "mano", "/", "buen", " ", "estado">>, t),
     armarios_empotrados |-> Flag(<<"armarios", " ", "empotrados">>, t),
     orientacion |-> SearchOrientacion(t),
     cocina_equipada |-> Flag(<<"cocina", " ", "equipada">>, t),
     amueblada |-> Amueblada(t),
     calefaccion |-> SearchCalefaccion(t),
     trastero |-> Flag(<<"trastero">>, t),
     construccion |->
         SearchNumber(t, <<"construido", " ", "en", " ">>, <<>>, 4),
     plantas |-> SearchNumber(t, <<>>, <<"planta", "s">>, 0)]

\* Fragments of the basic-characteristics block of a listing.
BasicFragments ==
    {<<"1", "2", "0", " ", "m²", " ", "construidos", ",", " ",
       "1", "0", "0", " ", "m²", " ", "útiles">>,
     <<"3", " ", "hab", "itac", "i", "ones">>,
     <<"2", " ", "baño", "s">>,
     <<"Parcela", " ", "de", " ", "5", "0", "0", " ", "m²">>,
     <<"Terraza", " ", "y", " ", "balcón">>,
     <<"Plaza", " ", "de", " ", "garaje", " ", "incluida", " ", "en", " ",
       "el", " ", "precio">>,
     <<"Segunda", " ", "mano", "/", "buen", " ", "estado">>,
     <<"Armarios", " ", "empotrados">>,
     <<"Orientación", " ", "sur", ",", " ", "este">>,
     <<"Cocina", " ", "equipada", " ", "y", " ", "casa", " ", "sin", " ",
       "amuebl", "ar">>,
     <<"Amuebl", "ado", " ", "y", " ", "cocina", " ", "equipada">>,
     <<"Calefacción", " ", "individual", ":", " ", "Gas", " ", "natural">>,
     <<"Trastero">>,
     <<"Construido", " ", "en", " ", "1", "9", "9", "0">>,
     <<"2", " ", "planta", "s">>}

MaxBasic == 2

BasicLists == SeqsUpTo(BasicFragments, 0, MaxBasic)

ExtractCaracteristicasBasicasCall ==
    /\ call.fn = "extract_caracteristicas_basicas" /\ ~call.done
    /\ call' = [call EXCEPT !.ret = ExtractCaracteristicasBasicas(call.arg),
                            !.done = TRUE]
    /\ UNCHANGED <<files, dirs, calls, procs, overlapped, dataframe, normalized>>

-----------------------------------------------------------------------------
(* NormalizarDataFrame.normalizar_precios *)

\* A DataFrame is the sequence of its rows; a row maps each column name to
\* the cell it holds.  A call returns a frame or raises.
Frame(rows) == [t |-> "frame", exc |-> "", rows |-> rows]
Raise(exc) == [t |-> "raise", exc |-> exc, rows |-> <<>>]

\* The columns of a frame with at least one row.
Columns(df) == DOMAIN df[1]

\* NaN, the missing value of a numeric or text column
NaN == [t |-> "NaN"]

IsMissing(cell) == cell = None \/ cell = NaN

RECURSIVE Reduced(_, _)
\* The decimal number n / 10^k, written without trailing zeros: the value of a
\* float64 (binary rounding is not modelled).
Reduced(n, k) ==
    IF k > 0 /\ n % 10 = 0 THEN Reduced(n \div 10, k - 1)
    ELSE [t |-> "float", n |-> n, k |-> k]

FloatVal(n, k) == Reduced(n, k)

\* Series.str.replace(old, new, regex=False) on one text, for a one-symbol old
Replace(text, old, new) ==
    LET RECURSIVE From(_)
        From(i) == IF i > Len(text) THEN <<>>
                   ELSE (IF text[i] = old THEN new ELSE <<text[i]>>) \o From(i + 1)
    IN  From(1)

\* Series.str.extract(r"(\d+)") on one text: the first run of digits, or NaN
ExtractDigits(text) ==
    LET i == Leftmost({k \in 1..Len(text) : IsDigit(text[k])})
    IN  IF i = 0 THEN NaN ELSE StrVal(SubSeq(text, i, RunEnd(text, i, "d")))

\* Series.str.extract(r"(\d+\.?\d*)") on one text
ExtractDecimal(text) ==
    LET i == Leftmost({k \in 1..Len(text) : IsDigit(text[k])})
        e1 == RunEnd(text, i, "d")
        e2 == IF e1 + 1 <= Len(text) /\ text[e1 + 1] = "."
              THEN RunEnd(text, e1 + 2, "d") ELSE e1
    IN  IF i = 0 THEN NaN ELSE StrVal(SubSeq(text, i, e2))

\* Whether float(text) parses: digits, then optionally "." and digits
IsFloatText(text) ==
    /\ text # <<>> /\ IsDigit(text[1])
    /\ LET e1 == RunEnd(text, 1, "d")
       IN \/ e1 = Len(text)
          \/ text[e1 + 1] = "." /\ RunEnd(text, e1 + 2, "d") = Len(text)

\* float(text) of a text that parses
FloatOf(text) ==
    LET e1 == RunEnd(text, 1, "d")
        frac == SubSeq(text, e1 + 2, Len(text))
    IN  FloatVal(IntOf(SubSeq(text, 1, e1) \o frac), Len(frac))

\* float * 1000
Times1000(x) == FloatVal(x.n * 1000, x.k)

\* line 275-278, one cell, before astype: NaN when there is no digit
PrecioInmuebleText(cell) ==
    IF IsMissing(cell) THEN NaN ELSE ExtractDigits(Replace(cell.v, ".", <<>>))

\* lines 280-283, one cell
PrecioM2(cell) ==
    LET g == IF IsMissing(cell) THEN NaN
             ELSE ExtractDecimal(Replace(cell.v, ",", <<".">>))
    IN  IF g = NaN THEN NaN ELSE FloatOf(g.v)

\* lines 274-284
NormalizarPrecios(df) ==
    LET n == Len(df)
        inmueble ==
            Value([i \in 1..n |-> PrecioInmuebleText(df[i]["precio_inmueble"])])
    IN  IF ~({"precio_inmueble", "price", "precio_m2"} \subseteq Columns(df))
        THEN Raise("KeyError")
        ELSE IF \E i \in 1..n : inmueble[i] = NaN
        THEN Raise("IntCastingNaNError")
        ELSE IF \E i \in 1..n : IsMissing(df[i]["price"]) \/ ~IsFloatText(df[i]["price"].v)
        THEN Raise("ValueError")
        ELSE Frame(Value([i \in 1..n |->
                 Value([c \in Columns(df) |->
                     CASE c = "precio_inmueble" -> IntVal(IntOf(inmueble[i].v))
                       [] c = "price" -> Times1000(FloatOf(df[i]["price"].v))
                       [] c = "precio_m2" -> PrecioM2(df[i]["precio_m2"])
                       [] OTHER -> df[i][c]])]))

\* Texts of the price cells of a listing.
PrecioInmuebleTexts ==
    {<<"1", "5", "0", ".", "0", "0", "0", " ", "€">>,
     <<"9", "5", ".", "5", "0", "0", " ", "€">>,
     <<"A", " ", "consultar">>}

PriceTexts == {<<"1", "5", "0", ".", "0">>, <<"9", "5", ".", "5">>}

PrecioM2Texts ==
    {<<"1", ".", "2", "5", "0", ",", "5", "0", " ", "€", "/", "m²">>,
     <<"9", "8", "0", ",", "7", "5", " ", "€", "/", "m²">>,
     <<"2", ".", "3", "4", "5", " ", "€", "/", "m²">>,
     <<"Consultar">>}

PriceRows ==
    {[precio_inmueble |-> StrVal(a), price |-> StrVal(b), precio_m2 |-> StrVal(c)] :
        a \in PrecioInmuebleTexts, b \in PriceTexts, c \in PrecioM2Texts}

MaxPriceRows == 2

PriceFrames == SeqsUpTo(PriceRows, 1, MaxPriceRows)

NormalizarPreciosCall ==
    /\ call.fn = "normalizar_precios" /\ ~call.done
    /\ call' = [call EXCEPT !.ret = NormalizarPrecios(call.arg), !.done = TRUE]
    /\ UNCHANGED <<files, dirs, calls, procs, overlapped, dataframe, normalized>>

-----------------------------------------------------------------------------
(* NormalizarDataFrame.normalize_dataframe *)

CompositeColumns ==
    {"info_features", "certificado_energetico", "caracteristicas_basicas"}

\* lines 296-304: Series.apply of an extractor; a missing cell (a listing
\* without that block) is no list, and the extractor raises TypeError on it
Applicable(df, column) == \A i \in 1..Len(df) : ~IsMissing(df[i][column])

DropColumnsInplace(df, columns) ==
    LET kept == Value([i \in 1..Len(df) |->
                    Value([c \in Columns(df) \ columns |-> df[i][c]])])
    IN  [self |-> kept, result |-> kept]

DropNothing(df, columns) == [self |-> df, result |-> df]

\* lines 308-314: DataFrame.drop(columns=...) returns a new frame and leaves
\* the frame it is called on as it is
DropColumns(df, columns) ==
    [self |-> df,
     result |-> Value([i \in 1..Len(df) |->
                    Value([c \in Columns(df) \ columns |-> df[i][c]])])]

\* lines 306-320: pd.concat(axis=1) of frames with the same rows and
\* different columns
ConcatColumns(a, b) == Value([i \in 1..Len(a) |-> a[i] @@ b[i]])

\* lines 322-328: the name a column has after rename
Renamed(c) ==
    CASE c = "Precio del inmueble:" -> "precio_inmueble"
      [] c = "Precio por m²:" -> "precio_m2"
      [] OTHER -> c

\* lines 322-328: DataFrame.rename(columns=...)
RenameColumns(df) ==
    Value([i \in 1..Len(df) |->
        Value([c \in {Renamed(x) : x \in Columns(df)} |->
            df[i][CHOOSE x \in Columns(df) : Renamed(x) = c]])])

\* lines 296-332: what self.dataframe holds after the call (self) and what
\* the call returns or raises (ret)
NormalizeDataframe(self_dataframe) ==
    LET n == Len(self_dataframe)
        df_info_features ==
            Value([i \in 1..n |->
                ExtractInfoFeatures(self_dataframe[i]["info_features"].v)])
        df_certificado_energetico ==
            Value([i \in 1..n |->
                ExtractCertificadoEnergetico(
                    self_dataframe[i]["certificado_energetico"].v)])
        df_caracteristicas_basicas ==
            Value([i \in 1..n |->
                ExtractCaracteristicasBasicas(
                    self_dataframe[i]["caracteristicas_basicas"].v)])
        dropped == DropColumns(self_dataframe, CompositeColumns)
        dataframe_normalizado ==
            RenameColumns(
                ConcatColumns(
                    ConcatColumns(
                        ConcatColumns(dropped.result, df_info_features),
                        df_certificado_energetico),
                    df_caracteristicas_basicas))
    IN  IF ~(CompositeColumns \subseteq Columns(self_dataframe))
        THEN [self |-> self_dataframe, ret |-> Raise("KeyError")]
        ELSE IF \E c \in CompositeColumns : ~Applicable(self_dataframe, c)
        THEN [self |-> self_dataframe, ret |-> Raise("TypeError")]
        ELSE [self |-> dropped.self, ret |-> NormalizarPrecios(dataframe_normalizado)]

\* A cell that holds a list
ListVal(list) == [t |-> "list", v |-> list]

\* A raw listing row, as the scraper's dictionary gives it.
RawRow(title, info, certificado, basicas, precio, m2) ==
    [title |-> StrVal(title),
     price |-> StrVal(<<"1", "5", "0", ".", "0">>),
     info_features |-> info,
     certificado_energetico |-> certificado,
     caracteristicas_basicas |-> basicas]
      @@ ("Precio del inmueble:" :> StrVal(precio))
      @@ ("Precio por m²:" :> StrVal(m2))

\* Raw listing rows: a full listing, sparse ones, one without an energy
\* certificate, and rows whose prices hold no number.
RawRows ==
    {RawRow(<<"Piso", " ", "en", " ", "venta">>,
            ListVal(<<<<"9", "0", " ", "m²">>, <<"3", " ", "hab", ".">>,
                      <<"Planta", " ", "2", "ª", " ", "exterior", " ", "con",
                        " ", "ascensor">>>>),
            ListVal(<<("Consumo:" :> Pair("ndarray", <<"A">>, <<"icon-a">>)),
                      ("Otro:" :> Pair("ndarray", <<"X">>, <<"Y">>))>>),
            ListVal(<<<<"1", "2", "0", " ", "m²", " ", "construidos", ",", " ",
                        "1", "0", "0", " ", "m²", " ", "útiles">>,
                      <<"Terraza", " ", "y", " ", "balcón">>>>),
            <<"1", "5", "0", ".", "0", "0", "0", " ", "€">>,
            <<"1", ".", "2", "5", "0", ",", "5", "0", " ", "€", "/", "m²">>),
     RawRow(<<"Chalet">>,
            ListVal(<<<<"Bajo", " ", "exterior", " ", "sin", " ", "ascensor">>>>),
            ListVal(<<>>),
            ListVal(<<<<"Trastero">>>>),
            <<"9", "5", ".", "5", "0", "0", " ", "€">>,
            <<"9", "8", "0", ",", "7", "5", " ", "€", "/", "m²">>),
     RawRow(<<"Casa">>,
            ListVal(<<>>),
            ListVal(<<("Emisiones:" :> Pair("ndarray", <<"B">>, <<"icon-b">>))>>),
            ListVal(<<>>),
            <<"9", "5", ".", "5", "0", "0", " ", "€">>,
            <<"Consultar">>),
     RawRow(<<"Estudio">>,
            ListVal(<<<<"Garaje", " ", "incluido">>>>),
            ListVal(<<("Consumo:" :> Pair("list", <<"A">>, <<"icon-a">>))>>),
            ListVal(<<<<"2", " ", "planta", "s">>>>),
            <<"A", " ", "consultar">>,
            <<"9", "8", "0", ",", "7", "5", " ", "€", "/", "m²">>),
     RawRow(<<"Piso">>,
            ListVal(<<<<"3", " ", "hab", ".">>>>),
            NaN,
            ListVal(<<<<"2", " ", "baño", "s">>>>),
            <<"1", "5", "0", ".", "0", "0", "0", " ", "€">>,
            <<"9", "8", "0", ",", "7", "5", " ", "€", "/", "m²">>),
     RawRow(<<"Dúplex">>,
            ListVal(<<<<"Con", " ", "garaje">>>>),
            ListVal(<<("Consumo:" :> None) @@
                      ("Emisiones:" :> Pair("ndarray", <<"C">>, <<"icon-c">>))>>),
            ListVal(<<<<"Amuebl", "ado", " ", "y", " ", "cocina", " ",
                        "equipada">>>>),
            <<"1", "5", "0", ".", "0", "0", "0", " ", "€">>,
            <<"2", ".", "3", "4", "5", " ", "€", "/", "m²">>)}

MaxRawRows == 2

MaxNormalizeCalls == 2

RawBatches == SeqsUpTo(RawRows, 1, MaxRawRows)

NormalizeDataframeCall ==
    /\ Len(normalized) < MaxNormalizeCalls
    /\ LET run == NormalizeDataframe(dataframe)
       IN  /\ dataframe' = run.self
           /\ normalized' = Append(normalized, [self |-> dataframe, ret |-> run.ret])
    /\ UNCHANGED <<files, dirs, calls, procs, overlapped, call>>

-----------------------------------------------------------------------------
NoCall == [fn |-> "none", arg |-> <<>>, ret |-> <<>>, done |-> FALSE]

\* A method about to be called with an argument.
Calling(fn, arg) == [fn |-> fn, arg |-> arg, ret |-> <<>>, done |-> FALSE]

\* The disk before the first call: empty, or holding files written earlier.
InitFiles ==
    UNION {[P -> {Stored}] :
              P \in SUBSET {PathJoin(<<"out">>, <<"data">>),
                            PathJoin(<<"out">>, <<"other">> \o PARQUET)}}

Init ==
    /\ files \in InitFiles
    /\ dirs = IF DOMAIN files # {} THEN DestPaths ELSE {}
    /\ calls = <<>>
    /\ procs = IdleProcs
    /\ overlapped = FALSE
    /\ call = NoCall
    /\ dataframe = <<>>
    /\ normalized = <<>>

Next == Save

Spec == Init /\ [][Next]_vars

InitConc ==
    /\ files \in UNION {[P -> {Stored}] : P \in SUBSET {ConcPath}}
    /\ dirs = IF DOMAIN files # {} THEN {ConcDest} ELSE {}
    /\ calls = <<>>
    /\ procs = IdleProcs
    /\ overlapped = FALSE
    /\ call = NoCall
    /\ dataframe = <<>>
    /\ normalized = <<>>

NextConc ==
    \E p \in Procs :
        \/ Begin(p)
        \/ CheckExists(p)
        \/ ReadParquet(p)
        \/ WriteUpdated(p)
        \/ Overwrite(p)
        \/ Create(p)

SpecConc == InitConc /\ [][NextConc]_vars

\* The same calls, on a disk whose writes can fail.
NextFail ==
    \E p \in Procs :
        \/ Begin(p)
        \/ CheckExists(p)
        \/ ReadParquet(p)
        \/ WriteUpdated(p)
        \/ Overwrite(p)
        \/ Create(p)
        \/ ToParquetFails(p)

SpecFail == InitConc /\ [][NextFail]_vars

\* No file and no save call.
NoStore ==
    /\ files = <<>>
    /\ dirs = {}
    /\ calls = <<>>
    /\ procs = IdleProcs
    /\ overlapped = FALSE

\* One of the three extractors is about to be called on one input.
InitExtract ==
    /\ NoStore
    /\ dataframe = <<>>
    /\ normalized = <<>>
    /\ call \in {Calling("extract_info_features", a) : a \in InfoLists}
          \cup {Calling("extract_certificado_energetico", a) : a \in EnergyLists}
          \cup {Calling("extract_caracteristicas_basicas", a) : a \in BasicLists}

NextExtract ==
    \/ ExtractInfoFeaturesCall
    \/ ExtractCertificadoEnergeticoCall
    \/ ExtractCaracteristicasBasicasCall

SpecExtract == InitExtract /\ [][NextExtract]_vars

\* normalizar_precios is about to be called on one frame.
InitPrecios ==
    /\ NoStore
    /\ dataframe = <<>>
    /\ normalized = <<>>
    /\ call \in {Calling("normalizar_precios", df) : df \in PriceFrames}

NextPrecios == NormalizarPreciosCall

SpecPrecios == InitPrecios /\ [][NextPrecios]_vars

\* NormalizarDataFrame(dataframe) has been built on a raw batch (lines 30-39).
InitNormalize ==
    /\ NoStore
    /\ call = NoCall
    /\ dataframe \in RawBatches
    /\ normalized = <<>>

NextNormalize == NormalizeDataframeCall

SpecNormalize == InitNormalize /\ [][NextNormalize]_vars

-----------------------------------------------------------------------------
(* Claims *)

RECURSIVE BatchesFrom(_, _)
\* the batches of calls cs[i], cs[i+1], ... one after the other
BatchesFrom(cs, i) ==
    IF i > Len(cs) THEN <<>> ELSE cs[i].batch \o BatchesFrom(cs, i + 1)

\* the calls made so far on the file at path t
CallsOn(t) ==
    SelectSeq(calls, LAMBDA c : PathJoin(c.dest_path, WithExtension(c.name)) = t)

\* a call that starts the file afresh: it found no file, or replace was false
Restarts(c) == ~c.found \/ ~c.replace

\* C1: after any sequence of save calls on one destination, the file holds
\* the batch of the most recent call that found no file or had replace=false,
\* followed in call order by the batch of every later call (all made with
\* replace=true), nothing removed; while no such call was made the rows
\* stored before come first, followed by every batch.
C1_FileIsLastRestartPlusAppends ==
    \A t \in DOMAIN files :
        LET cs == CallsOn(t)
            R == {i \in 1..Len(cs) : Restarts(cs[i])}
        IN  cs # <<>> =>
              IF R = {}
              THEN files[t] = Stored \o BatchesFrom(cs, 1)
              ELSE LET last == CHOOSE i \in R : \A j \in R : j <= i
                   IN /\ files[t] = BatchesFrom(cs, last)
                      /\ \A j \in (last + 1)..Len(cs) : cs[j].replace

\* C1 witness: A saved to a fresh destination, then B (the same rows as A)
\* with replace=true, then C with replace=false: only C's rows remain.
C1_Witness ==
    /\ Len(calls) = 3
    /\ \E t \in DOMAIN files :
          /\ Len(CallsOn(t)) = 3
          /\ ~calls[1].found
          /\ calls[2].replace /\ calls[2].batch = calls[1].batch
          /\ ~calls[3].replace
          /\ Len(files[t]) = Len(calls[3].batch)

\* C10: a save call changes the file at destination_directory/name (the
\* extension appended to a name that lacks it), which exists afterwards, and
\* no other path: every other file exists after the call exactly when it did
\* before, with the same rows.
C10_OnePathMutated ==
    [][calls' # calls =>
          LET c == Last(calls')
              target == c.dest_path \o <<"/">> \o
                          (IF Contains(c.name, <<".parquet">>)
                           THEN c.name ELSE c.name \o <<".parquet">>)
          IN /\ target \in DOMAIN files'
             /\ files'[target] # <<>>
             /\ \A p \in (DOMAIN files \cup DOMAIN files') \ {target} :
                    /\ p \in DOMAIN files
                    /\ p \in DOMAIN files'
                    /\ files'[p] = files[p]]_vars

\* C10 witness: "data" was saved while a file "data" without the extension
\* and a dataset "other.parquet" were on the disk; both still hold the rows
\* they held, and "data.parquet" holds the batch.
C10_Witness ==
    /\ calls # <<>>
    /\ Last(calls).name = <<"data">>
    /\ PathJoin(<<"out">>, <<"data">>) \in DOMAIN files
    /\ files[PathJoin(<<"out">>, <<"data">>)] = Stored
    /\ PathJoin(<<"out">>, <<"other">> \o PARQUET) \in DOMAIN files
    /\ PathJoin(<<"out">>, <<"data">> \o PARQUET) \in DOMAIN files
    /\ files[PathJoin(<<"out">>, <<"data">> \o PARQUET)] = Last(calls).batch

BothDone == \A p \in Procs : procs[p].pc = "done"

BothAppend == \A p \in Procs : procs[p].replace /\ procs[p].found

\* C2: when two save calls with replace=true on the same existing file have
\* both returned, the file holds the stored rows followed by both batches if
\* the calls ran one after the other; if they ran at the same time it holds
\* the stored rows followed by both batches or by only one of them.
C2_SerialKeepsBothBatches ==
    (BothDone /\ BothAppend) =>
        IF ~overlapped
        THEN files[ConcPath] \in {Stored \o BatchOf(1) \o BatchOf(2),
                                  Stored \o BatchOf(2) \o BatchOf(1)}
        ELSE files[ConcPath] \in {Stored \o BatchOf(1) \o BatchOf(2),
                                  Stored \o BatchOf(2) \o BatchOf(1),
                                  Stored \o BatchOf(1),
                                  Stored \o BatchOf(2)}

\* C2 witness (the lost update): both calls have returned, both found the
\* file and appended, and the rows of one batch are not in the file.
C2_LostUpdate ==
    /\ BothDone /\ BothAppend
    /\ \E p \in Procs :
          \A i \in 1..Len(files[ConcPath]) : files[ConcPath][i] # BatchOf(p)[1]

-----------------------------------------------------------------------------
Returned(fn) == call.fn = fn /\ call.done

CertKeys ==
    {"consumo_energetico_valor", "consumo_energetico_icono",
     "emisiones_valor", "emisiones_icono"}

\* an entry with an effect: it holds a pair under one of the two labels
HasEffect(item) ==
    \E label \in {"Consumo:", "Emisiones:"} :
        label \in DOMAIN item /\ item[label] # None

\* the positions of the entries that hold under `label` a pair (an array)
\* whose element k is not empty
Setting(data, label, k) ==
    {i \in 1..Len(data) :
        /\ label \in DOMAIN data[i]
        /\ data[i][label] # None
        /\ data[i][label].t = "ndarray"
        /\ data[i][label].v[k] # <<>>}

\* the element the last such entry holds, absent when there is none
SetBy(data, label, k) ==
    LET S == Setting(data, label, k)
    IN  IF S = {} THEN None
        ELSE StrVal(data[CHOOSE i \in S : \A j \in S : j <= i][label].v[k])

ConAscensor == <<"con", " ", "ascensor">>
SinAscensor == <<"sin", " ", "ascensor">>

\* C6: ascensor is true whenever "con ascensor" appears in the lowercased
\* joined text (also when "sin ascensor" appears too), false when only
\* "sin ascensor" appears, absent when neither appears.
C6_AscensorTriState ==
    Returned("extract_info_features") =>
        LET text == Lower(Join(call.arg))
            ascensor == call.ret.ascensor
        IN  /\ ascensor \in {BoolVal(TRUE), BoolVal(FALSE), None}
            /\ Contains(text, ConAscensor) => ascensor = BoolVal(TRUE)
            /\ (~Contains(text, ConAscensor) /\ Contains(text, SinAscensor))
                   => ascensor = BoolVal(FALSE)
            /\ (~Contains(text, ConAscensor) /\ ~Contains(text, SinAscensor))
                   => ascensor = None

\* C6 witness: both phrases appear and ascensor is true.
C6_Witness ==
    /\ Returned("extract_info_features")
    /\ Contains(Lower(Join(call.arg)), ConAscensor)
    /\ Contains(Lower(Join(call.arg)), SinAscensor)
    /\ call.ret.ascensor = BoolVal(TRUE)

\* The phrases that trigger each flag of the Basic-Characteristics Extractor.
FlagPhrases ==
    [terraza |-> {<<"terraza">>},
     balcon |-> {<<"balcón">>},
     garaje_incluido |-> {<<"plaza", " ", "de", " ", "garaje", " ", "incluida",
                            " ", "en", " ", "el", " ", "precio">>},
     segunda_mano_buen_estado |->
         {<<"segunda", " ", "mano", "/", "buen", " ", "estado">>},
     armarios_empotrados |-> {<<"armarios", " ", "empotrados">>},
     cocina_equipada |-> {<<"cocina", " ", "equipada">>},
     amueblada |-> {<<"casa", " ", "sin", " ", "amuebl", "ar">>,
                    <<"amuebl", "ado">>},
     trastero |-> {<<"trastero">>}]

\* C7: garaje of the Info-Feature Extractor is a boolean, true exactly when
\* "garaje incluido" or "con garaje" appears; each boolean flag of the
\* Basic-Characteristics Extractor is a boolean, false whenever its
\* triggering phrase does not appear.
C7_FlagsAreBooleans ==
    /\ Returned("extract_info_features") =>
          LET text == Lower(Join(call.arg)) IN
          /\ call.ret.garaje \in {BoolVal(TRUE), BoolVal(FALSE)}
          /\ call.ret.garaje.v =
                (Contains(text, <<"garaje", " ", "incluido">>)
                   \/ Contains(text, <<"con", " ", "garaje">>))
    /\ Returned("extract_caracteristicas_basicas") =>
          LET text == Lower(Join(call.arg)) IN
          \A flag \in DOMAIN FlagPhrases :
              /\ call.ret[flag] \in {BoolVal(TRUE), BoolVal(FALSE)}
              /\ (\A phrase \in FlagPhrases[flag] : ~Contains(text, phrase))
                     => call.ret[flag] = BoolVal(FALSE)

\* C7 witness: a text without a garage phrase and without an elevator
\* phrase: garaje is false where ascensor is absent.
C7_Witness ==
    /\ Returned("extract_info_features")
    /\ call.arg # <<>>
    /\ call.ret.garaje = BoolVal(FALSE)
    /\ call.ret.ascensor = None

-----------------------------------------------------------------------------
\* the whole number a price text written with "." thousands separators
\* denotes: the digits of its leading number
ThousandsNumber(text) ==
    LET i == Leftmost({k \in 1..Len(text) : IsDigit(text[k])})
        stops == {k \in i..Len(text) : ~IsDigit(text[k]) /\ text[k] # "."}
        e == IF stops = {} THEN Len(text)
             ELSE (CHOOSE k \in stops : \A j \in stops : k <= j) - 1
    IN  IntOf(SelectSeq(SubSeq(text, i, e), IsDigit))

\* the decimal number a text with "," as decimal separator (and possibly "."
\* thousands separators) denotes, as digits and number of decimals
CommaDecimal(text) ==
    LET i == Leftmost({k \in 1..Len(text) : IsDigit(text[k])})
        stops == {k \in i..Len(text) : ~IsDigit(text[k]) /\ text[k] \notin {".", ","}}
        e == IF stops = {} THEN Len(text)
             ELSE (CHOOSE k \in stops : \A j \in stops : k <= j) - 1
        number == SubSeq(text, i, e)
        comma == CHOOSE k \in 1..Len(number) : number[k] = ","
        whole == SelectSeq(SubSeq(number, 1, comma - 1), IsDigit)
        decimals == SubSeq(number, comma + 1, Len(number))
    IN  FloatVal(IntOf(whole \o decimals), Len(decimals))

HasDigit(text) == \E k \in 1..Len(text) : IsDigit(text[k])

\* a row both of whose price texts hold a number
WellFormed(row) == HasDigit(row.precio_inmueble.v) /\ HasDigit(row.precio_m2.v)

\* C3: a row whose precio_inmueble or precio_m2 text holds no number fails
\* with a ValueExtractionError; the failure is confined to that row: its
\* value is never coerced to absent and the other rows of the batch are
\* still normalized.
C3_RowFatalBatchContinuing ==
    Returned("normalizar_precios") =>
        \A i \in 1..Len(call.arg) :
            IF WellFormed(call.arg[i])
            THEN /\ i <= Len(call.ret.rows)
                 /\ call.ret.rows[i].precio_inmueble.t = "int"
                 /\ call.ret.rows[i].precio_m2.t = "float"
            ELSE /\ call.ret.exc = "ValueExtractionError"
                 /\ i <= Len(call.ret.rows) => call.ret.rows[i].precio_m2 # NaN

\* C4: precio_inmueble written with "." thousands separators gives the
\* integer its digits denote, price p gives p * 1000, and precio_m2 written
\* with "," as decimal separator (also with a "." thousands separator) gives
\* the decimal number it denotes.
C4_PricesDenoted ==
    (Returned("normalizar_precios") /\ call.ret.t = "frame") =>
        \A i \in 1..Len(call.arg) :
            LET raw == call.arg[i]
                row == call.ret.rows[i]
            IN  /\ row.precio_inmueble = IntVal(ThousandsNumber(raw.precio_inmueble.v))
                /\ row.price = LET x == FloatOf(raw.price.v)
                               IN  FloatVal(x.n * 1000, x.k)
                /\ Contains(raw.precio_m2.v, <<",">>)
                      => row.precio_m2 = CommaDecimal(raw.precio_m2.v)

-----------------------------------------------------------------------------
\* C8: normalize_dataframe is a pure function of the raw batch: every call
\* on the same batch gives the same result as the first, and a call leaves
\* the raw batch as it was (same columns, same names, same values), so
\* that each later call starts from the batch the first one started from.
C8_PureOfRawBatch ==
    /\ \A k \in 1..Len(normalized) :
          /\ normalized[k].self = normalized[1].self
          /\ normalized[k].ret = normalized[1].ret
    /\ normalized # <<>> => dataframe = normalized[1].self

\* C8: normalize_dataframe has returned a frame of two rows twice
C8_Witness ==
    /\ Len(normalized) = 2
    /\ normalized[2].ret.t = "frame"
    /\ Len(normalized[2].ret.rows) = 2
    /\ Len(dataframe) = 2

RawPriceColumns == {"Precio del inmueble:", "Precio por m²:"}

InfoKeys == {"superficie_m2", "habitaciones", "garaje", "planta", "ascensor"}

BasicKeys ==
    {"caracteristicas_basicas_superficie_m2", "superficie_util_m2",
     "caracteristicas_basicas_habitaciones", "caracteristicas_basicas_banos",
     "parcela_m2", "terraza", "balcon", "garaje_incluido",
     "segunda_mano_buen_estado", "armarios_empotrados", "orientacion",
     "cocina_equipada", "amueblada", "calefaccion", "trastero", "construccion",
     "plantas"}

\* the columns of a raw row that are neither composite nor prices
PassThrough(raw) ==
    DOMAIN raw \ (CompositeColumns \cup RawPriceColumns \cup {"price"})

\* C9: every row of a returned batch has the same columns: the three
\* composite columns are gone, every pass-through column is there with
\* the value it had, the two raw price columns are there only as
\* precio_inmueble and precio_m2, and each of the 5 + 4 + 17 extracted
\* keys is a column holding what the extractor gave for that row, None
\* where nothing matched.
C9_UniformColumns ==
    \A k \in 1..Len(normalized) :
        LET raw == normalized[k].self
            ret == normalized[k].ret
        IN  ret.t = "frame" =>
                /\ Len(ret.rows) = Len(raw)
                /\ \A i \in 1..Len(raw) :
                      LET row == ret.rows[i]
                          info == ExtractInfoFeatures(raw[i].info_features.v)
                          cert == ExtractCertificadoEnergetico(
                                      raw[i].certificado_energetico.v)
                          basic == ExtractCaracteristicasBasicas(
                                       raw[i].caracteristicas_basicas.v)
                      IN  /\ DOMAIN row =
                                PassThrough(raw[i])
                                    \cup {"price", "precio_inmueble", "precio_m2"}
                                    \cup InfoKeys \cup CertKeys \cup BasicKeys
                          /\ Cardinality(InfoKeys \cup CertKeys \cup BasicKeys) = 26
                          /\ \A c \in PassThrough(raw[i]) : row[c] = raw[i][c]
                          /\ \A c \in InfoKeys : row[c] = info[c]
                          /\ \A c \in CertKeys : row[c] = cert[c]
                          /\ \A c \in BasicKeys : row[c] = basic[c]

\* C9: a returned batch of two rows, one with a floor and an energy rating
\* and one with neither
C9_Witness ==
    \E k \in 1..Len(normalized) :
        /\ normalized[k].ret.t = "frame"
        /\ Len(normalized[k].ret.rows) = 2
        /\ normalized[k].ret.rows[1].planta = IntVal(2)
        /\ normalized[k].ret.rows[1].consumo_energetico_valor = StrVal(<<"A">>)
        /\ normalized[k].ret.rows[2].planta = None
        /\ normalized[k].ret.rows[2].consumo_energetico_valor = None
        /\ normalized[k].ret.rows[2].title = StrVal(<<"Chalet">>)

-----------------------------------------------------------------------------
\* C11: a failure of the write step reaches the caller unmodified and no
\* recovery is attempted: the step of a call that leaves its file
\* truncated ends that call with the OSError of to_parquet, and a call
\* that has raised does nothing more, so the file is not restored by it.
C11_FailureNotRecovered ==
    [][\A p \in Procs :
          LET path == FilePath(ConcDest, procs[p].name) IN
          /\ (/\ procs[p].pc \in WritePcs
              /\ procs'[p] # procs[p]
              /\ Exists(files', path)
              /\ files'[path] = Truncated)
                 => procs'[p].pc = "raised" /\ procs'[p].exc = "OSError"
          /\ procs[p].pc = "raised" => procs'[p] = procs[p]]_vars

\* C11: a single save with replace=True found the file, read its rows and
\* failed in its write: the file holds neither the rows stored before nor
\* the new batch
C11_Witness ==
    \E p \in Procs :
        /\ \A q \in Procs \ {p} : procs[q].pc = "idle"
        /\ procs[p].pc = "raised"
        /\ procs[p].replace /\ procs[p].found
        /\ procs[p].existing_df = Stored
        /\ files[ConcPath] = Truncated
        /\ ~Contains(files[ConcPath], Stored)
        /\ ~Contains(files[ConcPath], procs[p].df)

-----------------------------------------------------------------------------
\* the positions of the entries that hold a pair (an array) under `label`
Labelled(data, label) ==
    {i \in 1..Len(data) :
        /\ label \in DOMAIN data[i]
        /\ data[i][label] # None
        /\ data[i][label].t = "ndarray"}

\* the result key of element k of the pairs under `label`
KeyOf(label, k) ==
    CASE label = "Consumo:" /\ k = 1 -> "consumo_energetico_valor"
      [] label = "Consumo:" /\ k = 2 -> "consumo_energetico_icono"
      [] label = "Emisiones:" /\ k = 1 -> "emisiones_valor"
      [] label = "Emisiones:" /\ k = 2 -> "emisiones_icono"

\* C12 as stated: with several entries under one label, valor and icono
\* are those of the last such entry, for every sequence of entries: no
\* value of an earlier entry is returned.
C12_LastMatchWins ==
    Returned("extract_certificado_energetico") =>
        \A label \in RelevantLabels, k \in {1, 2} :
            LET L == Labelled(call.arg, label)
                last == CHOOSE i \in L : \A j \in L : j <= i
            IN  Cardinality(L) >= 2 =>
                    call.ret[KeyOf(label, k)]
                        \in {StrVal(call.arg[last][label].v[k]), None}

\* C12, amended: with several entries under one label, valor and icono are
\* taken separately: each is the element of the last such entry when that
\* element is not empty, and otherwise what the entries before it give, so
\* that valor and icono can come from different entries.
C12_LastNonEmptyElementWins ==
    Returned("extract_certificado_energetico") =>
        \A label \in RelevantLabels, k \in {1, 2} :
            LET L == Labelled(call.arg, label)
                last == CHOOSE i \in L : \A j \in L : j <= i
                element == call.arg[last][label].v[k]
            IN  Cardinality(L) >= 2 =>
                    call.ret[KeyOf(label, k)] =
                        IF element # <<>> THEN StrVal(element)
                        ELSE ExtractCertificadoEnergetico(
                                 SubSeq(call.arg, 1, last - 1))[KeyOf(label, k)]

\* C12: two "Consumo:" entries, the last with an empty icon: valor is the
\* last entry's, icono the first entry's
C12_Witness ==
    /\ Returned("extract_certificado_energetico")
    /\ call.arg = <<("Consumo:" :> Pair("ndarray", <<"A">>, <<"icon-a">>)),
                    ("Consumo:" :> Pair("ndarray", <<"B">>, <<>>))>>
    /\ call.ret.consumo_energetico_valor = StrVal(<<"B">>)
    /\ call.ret.consumo_energetico_icono = StrVal(<<"icon-a">>)

-----------------------------------------------------------------------------
Unfurnished == <<"casa", " ", "sin", " ", "amuebl", "ar">>

Furnished == <<"amuebl", "ado">>

\* C13: amueblada is true exactly when the lowercased joined text contains
\* "casa sin amueblar" or contains "amueblado", and false only when it
\* contains neither: the unfurnished phrase alone, or both phrasings, give
\* true.
C13_AmuebladaIsOr ==
    Returned("extract_caracteristicas_basicas") =>
        LET text == Lower(Join(call.arg))
            unfurnished == Contains(text, Unfurnished)
            furnished == Contains(text, Furnished)
        IN  /\ call.ret.amueblada = BoolVal(unfurnished \/ furnished)
            /\ (unfurnished /\ ~furnished) => call.ret.amueblada = BoolVal(TRUE)
            /\ (unfurnished /\ furnished) => call.ret.amueblada = BoolVal(TRUE)
            /\ (~unfurnished /\ ~furnished) => call.ret.amueblada = BoolVal(FALSE)

\* C13: a listing that says only "casa sin amueblar" gets amueblada = true
C13_Witness ==
    /\ Returned("extract_caracteristicas_basicas")
    /\ Contains(Lower(Join(call.arg)), Unfurnished)
    /\ ~Contains(Lower(Join(call.arg)), Furnished)
    /\ call.ret.amueblada = BoolVal(TRUE)

=============================================================================
